---------------------------- MODULE Spec2Model ----------------------------
(***************************************************************************)
(* A model of the thread-safe trie of github.com/Pashugan/trie             *)
(* (src/trie.go, lines 1-157: the Trie with the size and nnum counters).   *)
(*                                                                         *)
(* The node graph is a heap of Node records addressed by node ids (the     *)
(* *Node pointers of the code).  A key is the sequence of runes that       *)
(* `range key` yields, i.e. the code points of the key.                    *)
(*                                                                         *)
(* Two next-state relations are defined over the same trie:                *)
(*   Spec      - one caller; every public method is one atomic action;     *)
(*   ConcSpec  - several callers; every method is split at its             *)
(*               Lock/RLock, its loop iterations, its field writes and     *)
(*               its Unlock/RUnlock, and the steps interleave.             *)
(***************************************************************************)
EXTENDS Integers, Sequences, FiniteSets, TLC

(***************************************************************************)
(* Bounds of the model.                                                    *)
(***************************************************************************)
\* longest key, in runes
MaxKeyLen == 2
\* capacity of the heap: the root and MaxNodes - 1 other nodes
MaxNodes == 4
\* Insert is not called once the size counter has reached MaxSize
MaxSize == 3

\* the runes keys are made of
Runes == {"a", "b"}
\* the runes of the keys concurrent callers use
ConcRunes == {"a"}
\* the concurrent callers
Procs == {"p1", "p2"}
\* no caller
NoProc == "none"
\* the non-nil payloads
Values == {"v1", "v2"}
\* the payloads concurrent callers insert
ConcValues == {"v1"}

\* the nil interface{} value: "no data stored"
Nil == "nil"
\* the nil *Node pointer
NoNode == 0
\* the zero rune, the symbol of the root
NoRune == "0"

NodeIds == 1..MaxNodes
\* the keys: runs of "a", and runs of "a" that end in "b"
Keys == {k \in UNION {[1..n -> Runes] : n \in 0..MaxKeyLen} :
            \A i \in 1..(Len(k) - 1) : k[i] = "a"}
ConcKeys == UNION {[1..n -> ConcRunes] : n \in 0..MaxKeyLen}

VARIABLES
    heap,      \* the allocated Node objects: node id -> Node
    root,      \* trie.root
    size,      \* trie.size
    nnum,      \* trie.nnum
    m,         \* one caller: a plain map[string]interface{} that receives the same writes
    last,      \* one caller: the most recent call and what it returned
    wlock,     \* the RWMutex: the caller that holds it for writing, if any
    rlock,     \* the RWMutex: the callers that hold it for reading
    pc,        \* where every caller is in the method it runs
    loc,       \* the arguments and local variables of every caller
    hist       \* for every caller inside Search(key): what Search(key) returns
               \* when it runs alone, at its call and after every Insert and
               \* Delete that ran since

\* the variables of the callers
conc == <<wlock, rlock, pc, loc, hist>>

vars == <<heap, root, size, nnum, m, last, wlock, rlock, pc, loc, hist>>

(***************************************************************************)
(* Node and its maps.                                                      *)
(***************************************************************************)
\* make(map[rune]*Node)
EmptyChildren == [r \in {} |-> NoNode]

\* a faulty node creation: the parent field is left nil
NewNodeNoParent(r, node) ==
    [symbol |-> r, parent |-> NoNode, children |-> EmptyChildren, data |-> Nil]

\* &Node{symbol: r, parent: node, children: make(map[rune]*Node)}
NewNode(r, node) ==
    [symbol |-> r, parent |-> node, children |-> EmptyChildren, data |-> Nil]

\* node.children[r]: nil when the map has no entry for r
Child(h, node, r) ==
    IF r \in DOMAIN h[node].children THEN h[node].children[r] ELSE NoNode

\* node.children[r] = c
SetChild(h, node, r, c) ==
    [h EXCEPT ![node].children =
        [x \in DOMAIN h[node].children \cup {r} |->
            IF x = r THEN c ELSE h[node].children[x]]]

\* a faulty delete(node.children, r): every entry of the map is deleted
DeleteChildAll(h, node, r) ==
    [h EXCEPT ![node].children = EmptyChildren]

\* delete(node.children, r)
DeleteChild(h, node, r) ==
    [h EXCEPT ![node].children =
        [x \in DOMAIN h[node].children \ {r} |-> h[node].children[x]]]

\* the address the allocator hands out: the lowest one not in use
NewNodeId(h) ==
    CHOOSE c \in NodeIds \ DOMAIN h : \A d \in NodeIds \ DOMAIN h : c <= d

\* the nodes a set of pointers keeps alive, through children maps
RECURSIVE Live(_, _)
Live(h, ptrs) ==
    LET next == ptrs \cup UNION {{h[n].children[r] : r \in DOMAIN h[n].children} : n \in ptrs}
    IN  IF next = ptrs THEN ptrs ELSE Live(h, next)

\* garbage collection: a Node no pointer leads to is gone
Collect(h, ptrs) ==
    LET live == Live(h, (ptrs \ {NoNode}) \cap DOMAIN h)
    IN  [n \in live |-> h[n]]

(***************************************************************************)
(* findNode: the descent by path.                                          *)
(***************************************************************************)
RECURSIVE findNode(_, _, _)
findNode(h, node, key) ==
    IF key = <<>> THEN node
    ELSE LET c == Child(h, node, Head(key))
         IN  IF c = NoNode THEN NoNode ELSE findNode(h, c, Tail(key))

(***************************************************************************)
(* Insert: one iteration of its loop, and the loop.                        *)
(***************************************************************************)
\* a faulty loop body: trie.nnum++ is left out
InsertStepNoCount(h, node, r, n) ==
    LET childNode == Child(h, node, r)
    IN  IF childNode = NoNode
        THEN LET c  == NewNodeId(h)
                 h1 == [x \in DOMAIN h \cup {c} |->
                          IF x = c THEN NewNode(r, node) ELSE h[x]]
             IN  [heap |-> SetChild(h1, node, r, c), node |-> c, nnum |-> n]
        ELSE [heap |-> h, node |-> childNode, nnum |-> n]

\* a faulty loop body: `childNode == nil` is not tested, a node is always made
InsertStepAlwaysNew(h, node, r, n) ==
    LET c  == NewNodeId(h)
        h1 == [x \in DOMAIN h \cup {c} |->
                 IF x = c THEN NewNode(r, node) ELSE h[x]]
    IN  [heap |-> SetChild(h1, node, r, c), node |-> c, nnum |-> n + 1]

\* the body of `for _, r := range key`: [heap, node, nnum] after it
InsertStep(h, node, r, n) ==
    LET childNode == Child(h, node, r)
    IN  IF childNode = NoNode
        THEN LET c  == NewNodeId(h)
                 h1 == [x \in DOMAIN h \cup {c} |->
                          IF x = c THEN NewNode(r, node) ELSE h[x]]
             IN  [heap |-> SetChild(h1, node, r, c), node |-> c, nnum |-> n + 1]
        ELSE [heap |-> h, node |-> childNode, nnum |-> n]

RECURSIVE InsertWalk(_, _, _, _)
InsertWalk(h, node, key, n) ==
    IF key = <<>> THEN [heap |-> h, node |-> node, nnum |-> n]
    ELSE LET s == InsertStep(h, node, Head(key), n)
         IN  InsertWalk(s.heap, s.node, Tail(key), s.nnum)

\* a faulty node.data = data: data already stored is not replaced
SetDataIfUnset(h, node, data) ==
    IF data # Nil /\ h[node].data # Nil THEN h ELSE [h EXCEPT ![node].data = data]

\* node.data = data
SetData(h, node, data) == [h EXCEPT ![node].data = data]

\* the positions of key's path that have no node yet
Missing(h, node, key) ==
    {i \in 1..Len(key) : findNode(h, node, SubSeq(key, 1, i)) = NoNode}

(***************************************************************************)
(* Delete: the pruning loop.                                               *)
(***************************************************************************)
\* a faulty loop condition: `node.data == nil` is not tested
PrunableIgnoresData(h, node) ==
    /\ DOMAIN h[node].children = {}
    /\ h[node].parent # NoNode

\* a faulty loop condition: `len(node.children) == 0` is not tested
PrunableIgnoresChildren(h, node) ==
    /\ h[node].data = Nil
    /\ h[node].parent # NoNode

\* the loop condition of Delete
Prunable(h, node) ==
    /\ h[node].data = Nil
    /\ DOMAIN h[node].children = {}
    /\ h[node].parent # NoNode

\* a faulty iteration of the pruning loop: trie.nnum-- is left out
PruneStepNoCount(h, node, n) ==
    LET parent == h[node].parent
        h1     == DeleteChild(h, parent, h[node].symbol)
    IN  [heap |-> [h1 EXCEPT ![node].parent = NoNode], node |-> parent, nnum |-> n]

\* one iteration of the pruning loop: [heap, node, nnum] after it
PruneStep(h, node, n) ==
    LET parent == h[node].parent
        h1     == DeleteChild(h, parent, h[node].symbol)
    IN  [heap |-> [h1 EXCEPT ![node].parent = NoNode], node |-> parent, nnum |-> n - 1]

\* a faulty pruning loop: an `if` in place of the `for`
PruneOnce(h, node, n) ==
    IF Prunable(h, node)
    THEN PruneStep(h, node, n)
    ELSE [heap |-> h, node |-> node, nnum |-> n]

RECURSIVE Prune(_, _, _)
Prune(h, node, n) ==
    IF Prunable(h, node)
    THEN LET s == PruneStep(h, node, n) IN Prune(s.heap, s.node, s.nnum)
    ELSE [heap |-> h, node |-> node, nnum |-> n]

(***************************************************************************)
(* HasPrefix: the recursive collection, as a set of <<key, data>> entries, *)
(* and the map the entries make.                                           *)
(***************************************************************************)
\* a faulty collection: the children are visited, their subtrees are not
findResultsShallow(h, node, prefix) ==
    UNION {
        LET childNode   == h[node].children[r]
            childPrefix == Append(prefix, r)
        IN  IF h[childNode].data # Nil
            THEN {<<childPrefix, h[childNode].data>>} ELSE {}
        : r \in DOMAIN h[node].children }

\* a faulty collection: `childNode.data != nil` is not tested
RECURSIVE findResultsNoNilCheck(_, _, _)
findResultsNoNilCheck(h, node, prefix) ==
    UNION {
        LET childNode   == h[node].children[r]
            childPrefix == Append(prefix, r)
        IN  {<<childPrefix, h[childNode].data>>}
            \cup findResultsNoNilCheck(h, childNode, childPrefix)
        : r \in DOMAIN h[node].children }

RECURSIVE findResults(_, _, _)
findResults(h, node, prefix) ==
    UNION {
        LET childNode   == h[node].children[r]
            childPrefix == Append(prefix, r)
        IN  (IF h[childNode].data # Nil
             THEN {<<childPrefix, h[childNode].data>>} ELSE {})
            \cup findResults(h, childNode, childPrefix)
        : r \in DOMAIN h[node].children }

\* results[k] = v for every entry
MapOf(entries) ==
    [k \in {e[1] : e \in entries} |-> (CHOOSE e \in entries : e[1] = k)[2]]

(***************************************************************************)
(* The plain map of the tests.                                             *)
(***************************************************************************)
\* m[key]: nil when the key is not in the map
MapGet(mp, key) == IF key \in DOMAIN mp THEN mp[key] ELSE Nil

\* m[key] = data
MapSet(mp, key, data) ==
    [k \in DOMAIN mp \cup {key} |-> IF k = key THEN data ELSE mp[k]]

\* delete(m, key)
MapDelete(mp, key) == [k \in DOMAIN mp \ {key} |-> mp[k]]

\* PrefixMap.HasPrefix: the entries whose key starts with prefix
PrefixMapHasPrefix(mp, prefix) ==
    LET prefixLen == Len(prefix)
        hit == {key \in DOMAIN mp :
                   /\ Len(key) >= prefixLen
                   /\ SubSeq(key, 1, prefixLen) = prefix}
    IN  [key \in hit |-> mp[key]]

(***************************************************************************)
(* The methods of Trie, from Lock to Unlock, as functions of the trie      *)
(* t = [heap, root, size, nnum]: the trie after the call and what the      *)
(* call returns.                                                           *)
(***************************************************************************)
Trie(h, rt, sz, n) == [heap |-> h, root |-> rt, size |-> sz, nnum |-> n]

\* a faulty Insert: trie.size++ is left out
TrieInsertNoSize(t, key, data) ==
    LET w == InsertWalk(t.heap, t.root, key, t.nnum)
    IN  Trie(SetData(w.heap, w.node, data), t.root, t.size, w.nnum)

\* a faulty Insert: the empty key is ignored
TrieInsertSkipsEmpty(t, key, data) ==
    LET w == InsertWalk(t.heap, t.root, key, t.nnum)
    IN  IF key = <<>> THEN t
        ELSE Trie(SetData(w.heap, w.node, data), t.root, t.size + 1, w.nnum)

TrieInsert(t, key, data) ==
    LET w == InsertWalk(t.heap, t.root, key, t.nnum)
    IN  Trie(SetData(w.heap, w.node, data), t.root, t.size + 1, w.nnum)

TrieSearch(t, key) ==
    LET node == findNode(t.heap, t.root, key)
    IN  IF node = NoNode THEN Nil ELSE t.heap[node].data

\* a faulty HasPrefix: `node.data != nil` is not tested for the prefix node
TrieHasPrefixNoNilCheck(t, prefix) ==
    LET node == findNode(t.heap, t.root, prefix)
    IN  IF node = NoNode THEN MapOf({})
        ELSE MapOf({<<prefix, t.heap[node].data>>}
                   \cup findResults(t.heap, node, prefix))

TrieHasPrefix(t, prefix) ==
    LET node == findNode(t.heap, t.root, prefix)
    IN  IF node = NoNode THEN MapOf({})
        ELSE MapOf((IF t.heap[node].data # Nil
                    THEN {<<prefix, t.heap[node].data>>} ELSE {})
                   \cup findResults(t.heap, node, prefix))

\* a faulty Delete: `node.data = nil` is left out
TrieDeleteKeepsData(t, key) ==
    LET node == findNode(t.heap, t.root, key)
    IN  IF node = NoNode \/ t.heap[node].data = Nil
        THEN [trie |-> t, ret |-> FALSE]
        ELSE LET p == Prune(t.heap, node, t.nnum)
             IN  [trie |-> Trie(Collect(p.heap, {t.root}), t.root, t.size - 1, p.nnum),
                  ret  |-> TRUE]

\* a faulty Delete: `node.data == nil` is not tested
TrieDeleteNoDataCheck(t, key) ==
    LET node == findNode(t.heap, t.root, key)
    IN  IF node = NoNode
        THEN [trie |-> t, ret |-> FALSE]
        ELSE LET p == Prune(SetData(t.heap, node, Nil), node, t.nnum)
             IN  [trie |-> Trie(Collect(p.heap, {t.root}), t.root, t.size - 1, p.nnum),
                  ret  |-> TRUE]

\* a faulty Delete: the pruning loop is left out
TrieDeleteNoPrune(t, key) ==
    LET node == findNode(t.heap, t.root, key)
    IN  IF node = NoNode \/ t.heap[node].data = Nil
        THEN [trie |-> t, ret |-> FALSE]
        ELSE [trie |-> Trie(SetData(t.heap, node, Nil), t.root, t.size - 1, t.nnum),
              ret  |-> TRUE]

\* a faulty Delete: a root left without data and children is replaced
TrieDeleteNewRoot(t, key) ==
    LET node == findNode(t.heap, t.root, key)
    IN  IF node = NoNode \/ t.heap[node].data = Nil
        THEN [trie |-> t, ret |-> FALSE]
        ELSE LET p == Prune(SetData(t.heap, node, Nil), node, t.nnum)
                 h == Collect(p.heap, {t.root})
                 c == NewNodeId(h)
             IN  IF h[t.root].data = Nil /\ DOMAIN h[t.root].children = {}
                 THEN [trie |-> Trie([n \in {c} |-> NewNode(NoRune, NoNode)],
                                     c, t.size - 1, p.nnum),
                       ret  |-> TRUE]
                 ELSE [trie |-> Trie(h, t.root, t.size - 1, p.nnum), ret |-> TRUE]

\* [trie, ret]: the trie after Delete(key) and the boolean it returns
TrieDelete(t, key) ==
    LET node == findNode(t.heap, t.root, key)
    IN  IF node = NoNode \/ t.heap[node].data = Nil
        THEN [trie |-> t, ret |-> FALSE]
        ELSE LET p == Prune(SetData(t.heap, node, Nil), node, t.nnum)
             IN  [trie |-> Trie(Collect(p.heap, {t.root}), t.root, t.size - 1, p.nnum),
                  ret  |-> TRUE]

TrieLen(t) == t.size

TrieNodeNum(t) == t.nnum

\* the trie of the current state
Cur == Trie(heap, root, size, nnum)

(***************************************************************************)
(* The calls, as records.                                                  *)
(***************************************************************************)
Call(op, key, val, ret) == [op |-> op, key |-> key, val |-> val, ret |-> ret]

NoCall == Call("NewTrie", <<>>, Nil, Nil)

\* the return value of a caller: none yet, or the value v
NoRet == <<>>

Ret(v) == <<v>>

\* the locals of a caller: its method and arguments, the node and the rest of
\* the key of its loop, and its return value
Locals(op, key, val, node, rest, ret) ==
    [op |-> op, key |-> key, val |-> val, node |-> node, rest |-> rest, ret |-> ret]

Idle == Locals("idle", <<>>, Nil, NoNode, <<>>, NoRet)

(***************************************************************************)
(* NewTrie.                                                                *)
(***************************************************************************)
Init ==
    /\ root = 1
    /\ heap = [n \in {1} |-> NewNode(NoRune, NoNode)]
    /\ size = 0
    /\ nnum = 1
    /\ m = [k \in {} |-> Nil]
    /\ last = NoCall
    /\ wlock = NoProc
    /\ rlock = {}
    /\ pc = [p \in Procs |-> "idle"]
    /\ loc = [p \in Procs |-> Idle]
    /\ hist = [p \in Procs |-> {}]

(***************************************************************************)
(* One caller: every method runs from its Lock to its Unlock in one step.  *)
(***************************************************************************)
SetTrie(t) ==
    /\ heap' = t.heap
    /\ root' = t.root
    /\ size' = t.size
    /\ nnum' = t.nnum

Insert(key, data) ==
    /\ size < MaxSize
    /\ Cardinality(DOMAIN heap) + Cardinality(Missing(heap, root, key)) <= MaxNodes
    /\ SetTrie(TrieInsert(Cur, key, data))
    /\ m' = MapSet(m, key, data)
    /\ last' = Call("Insert", key, data, Nil)
    /\ UNCHANGED conc

\* a faulty Search: its descent creates the nodes it does not find
SearchCreates(key) ==
    /\ Cardinality(DOMAIN heap) + Cardinality(Missing(heap, root, key)) <= MaxNodes
    /\ last' = Call("Search", key, Nil, TrieSearch(Cur, key))
    /\ LET w == InsertWalk(heap, root, key, nnum)
       IN  heap' = w.heap
    /\ UNCHANGED <<root, size, nnum, m>>
    /\ UNCHANGED conc

Search(key) ==
    /\ last' = Call("Search", key, Nil, TrieSearch(Cur, key))
    /\ UNCHANGED <<heap, root, size, nnum, m>>
    /\ UNCHANGED conc

HasPrefix(prefix) ==
    /\ last' = Call("HasPrefix", prefix, Nil, TrieHasPrefix(Cur, prefix))
    /\ UNCHANGED <<heap, root, size, nnum, m>>
    /\ UNCHANGED conc

Delete(key) ==
    LET d == TrieDelete(Cur, key)
    IN  /\ SetTrie(d.trie)
        /\ m' = MapDelete(m, key)
        /\ last' = Call("Delete", key, Nil, d.ret)
        /\ UNCHANGED conc

Len_ ==
    /\ last' = Call("Len", <<>>, Nil, TrieLen(Cur))
    /\ UNCHANGED <<heap, root, size, nnum, m>>
    /\ UNCHANGED conc

NodeNum ==
    /\ last' = Call("NodeNum", <<>>, Nil, TrieNodeNum(Cur))
    /\ UNCHANGED <<heap, root, size, nnum, m>>
    /\ UNCHANGED conc

Next ==
    \/ \E key \in Keys, data \in Values : Insert(key, data)
    \/ \E key \in Keys : Search(key)
    \/ \E prefix \in Keys : HasPrefix(prefix)
    \/ \E key \in Keys : Delete(key)
    \/ Len_
    \/ NodeNum

Spec == Init /\ [][Next]_vars

(***************************************************************************)
(* One caller that also passes nil, the zero interface{} value, to Insert. *)
(***************************************************************************)
\* the payloads of this caller
AnyValues == {"v1", Nil}

NextAny ==
    \/ \E key \in Keys, data \in AnyValues : Insert(key, data)
    \/ \E key \in Keys : Search(key)
    \/ \E prefix \in Keys : HasPrefix(prefix)
    \/ \E key \in Keys : Delete(key)
    \/ Len_
    \/ NodeNum

SpecAny == Init /\ [][NextAny]_vars

(***************************************************************************)
(* Several callers.  A caller is idle, or inside one method: pc is the     *)
(* statement it executes next.  sync.RWMutex: Lock waits until nobody      *)
(* holds the lock, RLock until nobody holds it for writing.                *)
(***************************************************************************)
\* trie.Lock() returns
CanLock == wlock = NoProc /\ rlock = {}

\* trie.RLock() returns
CanRLock == wlock = NoProc

\* the pointers the callers hold after a step
Held(l) == {l[q].node : q \in Procs}

\* the caller moves on
Goto(p, label) == pc' = [pc EXCEPT ![p] = label]

Shared == <<root, m, last, hist>>

\* the callers inside Search
Searching == {q \in Procs : pc[q] \in {"srch_find", "srch_runlock", "srch_ret"}}

\* a writer runs and leaves the trie t: every Search in progress can be
\* ordered after it
Overlaps(t) ==
    hist' = [q \in Procs |->
                IF q \in Searching
                THEN hist[q] \cup {TrieSearch(t, loc[q].key)}
                ELSE hist[q]]

\* the method returns: the call is over, its locals are gone
Returns(p) ==
    /\ pc' = [pc EXCEPT ![p] = "idle"]
    /\ loc' = [loc EXCEPT ![p] = Idle]

\* --- Insert -------------------------------------------------------------
\* a faulty Insert: its Lock() does not wait for the readers to leave
InsertLockNoWait(p, key, data) ==
    /\ pc[p] = "idle"
    /\ size < MaxSize
    /\ Cardinality(DOMAIN heap) + Cardinality(Missing(heap, root, key)) <= MaxNodes
    /\ wlock = NoProc
    /\ wlock' = p
    /\ Goto(p, "ins_loop")
    /\ loc' = [loc EXCEPT ![p] = Locals("Insert", key, data, root, key, NoRet)]
    /\ Overlaps(TrieInsert(Cur, key, data))
    /\ UNCHANGED <<heap, size, nnum, rlock, root, m, last>>

\* trie.Lock(); node := trie.root
InsertLock(p, key, data) ==
    /\ pc[p] = "idle"
    /\ size < MaxSize
    /\ Cardinality(DOMAIN heap) + Cardinality(Missing(heap, root, key)) <= MaxNodes
    /\ CanLock
    /\ wlock' = p
    /\ Goto(p, "ins_loop")
    /\ loc' = [loc EXCEPT ![p] = Locals("Insert", key, data, root, key, NoRet)]
    /\ Overlaps(TrieInsert(Cur, key, data))
    /\ UNCHANGED <<heap, size, nnum, rlock, root, m, last>>

\* one iteration of `for _, r := range key`
InsertLoop(p) ==
    /\ pc[p] = "ins_loop"
    /\ loc[p].rest # <<>>
    /\ LET s == InsertStep(heap, loc[p].node, Head(loc[p].rest), nnum)
       IN  /\ heap' = s.heap
           /\ nnum' = s.nnum
           /\ loc' = [loc EXCEPT ![p].node = s.node, ![p].rest = Tail(loc[p].rest)]
    /\ UNCHANGED <<size, wlock, rlock, pc, Shared>>

\* node.data = data
InsertData(p) ==
    /\ pc[p] = "ins_loop"
    /\ loc[p].rest = <<>>
    /\ heap' = SetData(heap, loc[p].node, loc[p].val)
    /\ Goto(p, "ins_size")
    /\ UNCHANGED <<size, nnum, wlock, rlock, loc, Shared>>

\* trie.size++
InsertSize(p) ==
    /\ pc[p] = "ins_size"
    /\ size' = size + 1
    /\ Goto(p, "ins_unlock")
    /\ UNCHANGED <<heap, nnum, wlock, rlock, loc, Shared>>

\* trie.Unlock()
InsertUnlock(p) ==
    /\ pc[p] = "ins_unlock"
    /\ wlock' = NoProc
    /\ Returns(p)
    /\ heap' = Collect(heap, {root} \cup Held(loc'))
    /\ UNCHANGED <<size, nnum, rlock, Shared>>

\* --- Search -------------------------------------------------------------
\* trie.RLock(); the call of trie.root.findNode(key)
SearchRLock(p, key) ==
    /\ pc[p] = "idle"
    /\ CanRLock
    /\ rlock' = rlock \cup {p}
    /\ Goto(p, "srch_find")
    /\ loc' = [loc EXCEPT ![p] = Locals("Search", key, Nil, root, key, NoRet)]
    /\ hist' = [hist EXCEPT ![p] = {TrieSearch(Cur, key)}]
    /\ UNCHANGED <<heap, size, nnum, wlock, root, m, last>>

\* a faulty findNode: the loop does not advance along the key
SearchFindStuck(p) ==
    /\ pc[p] = "srch_find"
    /\ IF loc[p].rest = <<>>
       THEN /\ Goto(p, "srch_runlock")
            /\ UNCHANGED loc
       ELSE UNCHANGED <<pc, loc>>
    /\ heap' = Collect(heap, {root} \cup Held(loc'))
    /\ UNCHANGED <<size, nnum, wlock, rlock, Shared>>

\* one iteration of the loop of findNode, or its return
SearchFind(p) ==
    /\ pc[p] = "srch_find"
    /\ IF loc[p].rest = <<>>
       THEN /\ Goto(p, "srch_runlock")
            /\ UNCHANGED loc
       ELSE LET c == Child(heap, loc[p].node, Head(loc[p].rest))
            IN  IF c = NoNode
                THEN /\ Goto(p, "srch_runlock")
                     /\ loc' = [loc EXCEPT ![p].node = NoNode, ![p].rest = <<>>]
                ELSE /\ UNCHANGED pc
                     /\ loc' = [loc EXCEPT ![p].node = c, ![p].rest = Tail(loc[p].rest)]
    /\ heap' = Collect(heap, {root} \cup Held(loc'))
    /\ UNCHANGED <<size, nnum, wlock, rlock, Shared>>

\* trie.RUnlock()
SearchRUnlock(p) ==
    /\ pc[p] = "srch_runlock"
    /\ rlock' = rlock \ {p}
    /\ Goto(p, "srch_ret")
    /\ UNCHANGED <<heap, size, nnum, wlock, loc, Shared>>

\* the callers whose next statement writes the data field of node
DataWriters(node) ==
    {q \in Procs :
        /\ loc[q].node = node
        /\ \/ pc[q] = "ins_loop" /\ loc[q].rest = <<>>
           \/ pc[q] = "del_clear"}

\* a torn interface{} value: the words of two different values
Torn == "torn"

\* what a read of node.data can deliver: the stored value or, when a write of
\* the field is in progress, also the written value or a torn one
DataRead(node) ==
    {heap[node].data}
    \cup {loc[q].val : q \in DataWriters(node)}
    \cup {Torn : q \in DataWriters(node)}

\* if node == nil { return nil }; return node.data: what Search returns is nil
\* or one of DataRead(node)
SearchReturn(p) ==
    /\ pc[p] = "srch_ret"
    /\ Returns(p)
    /\ hist' = [hist EXCEPT ![p] = {}]
    /\ heap' = Collect(heap, {root} \cup Held(loc'))
    /\ UNCHANGED <<size, nnum, wlock, rlock, root, m, last>>

\* --- HasPrefix ----------------------------------------------------------
\* a faulty HasPrefix: its RLock() does not wait for the writer to leave
HasPrefixRLockNoWait(p, prefix) ==
    /\ pc[p] = "idle"
    /\ rlock' = rlock \cup {p}
    /\ Goto(p, "hp_collect")
    /\ loc' = [loc EXCEPT ![p] = Locals("HasPrefix", prefix, Nil, NoNode, <<>>, NoRet)]
    /\ UNCHANGED <<heap, size, nnum, wlock, Shared>>

\* results := make(...); trie.RLock()
HasPrefixRLock(p, prefix) ==
    /\ pc[p] = "idle"
    /\ CanRLock
    /\ rlock' = rlock \cup {p}
    /\ Goto(p, "hp_collect")
    /\ loc' = [loc EXCEPT ![p] = Locals("HasPrefix", prefix, Nil, NoNode, <<>>, NoRet)]
    /\ UNCHANGED <<heap, size, nnum, wlock, Shared>>

\* findNode(prefix) and the collection of the results
HasPrefixCollect(p) ==
    /\ pc[p] = "hp_collect"
    /\ loc' = [loc EXCEPT ![p].ret = Ret(TrieHasPrefix(Cur, loc[p].key))]
    /\ Goto(p, "hp_runlock")
    /\ UNCHANGED <<heap, size, nnum, wlock, rlock, Shared>>

\* the deferred trie.RUnlock()
HasPrefixRUnlock(p) ==
    /\ pc[p] = "hp_runlock"
    /\ rlock' = rlock \ {p}
    /\ Returns(p)
    /\ UNCHANGED <<heap, size, nnum, wlock, Shared>>

\* --- Delete -------------------------------------------------------------
\* trie.Lock()
DeleteLock(p, key) ==
    /\ pc[p] = "idle"
    /\ CanLock
    /\ wlock' = p
    /\ Goto(p, "del_find")
    /\ loc' = [loc EXCEPT ![p] = Locals("Delete", key, Nil, NoNode, <<>>, NoRet)]
    /\ Overlaps(TrieDelete(Cur, key).trie)
    /\ UNCHANGED <<heap, size, nnum, rlock, root, m, last>>

\* a faulty Delete: the return for a missing key leaves the lock held
DeleteFindNoUnlock(p) ==
    /\ pc[p] = "del_find"
    /\ LET node == findNode(heap, root, loc[p].key)
       IN  IF node = NoNode \/ heap[node].data = Nil
           THEN /\ Returns(p)
           ELSE /\ loc' = [loc EXCEPT ![p].node = node]
                /\ Goto(p, "del_clear")
    /\ UNCHANGED <<heap, size, nnum, wlock, rlock, Shared>>

\* node := trie.root.findNode(key); if node == nil || node.data == nil
DeleteFind(p) ==
    /\ pc[p] = "del_find"
    /\ LET node == findNode(heap, root, loc[p].key)
       IN  IF node = NoNode \/ heap[node].data = Nil
           THEN /\ loc' = [loc EXCEPT ![p].ret = Ret(FALSE)]
                /\ Goto(p, "del_unlock")
           ELSE /\ loc' = [loc EXCEPT ![p].node = node]
                /\ Goto(p, "del_clear")
    /\ UNCHANGED <<heap, size, nnum, wlock, rlock, Shared>>

\* node.data = nil
DeleteClear(p) ==
    /\ pc[p] = "del_clear"
    /\ heap' = SetData(heap, loc[p].node, Nil)
    /\ Goto(p, "del_prune")
    /\ UNCHANGED <<size, nnum, wlock, rlock, loc, Shared>>

\* one iteration of the pruning loop, or its end
DeletePrune(p) ==
    /\ pc[p] = "del_prune"
    /\ IF Prunable(heap, loc[p].node)
       THEN LET s == PruneStep(heap, loc[p].node, nnum)
            IN  /\ loc' = [loc EXCEPT ![p].node = s.node]
                /\ heap' = Collect(s.heap, {root} \cup Held(loc'))
                /\ nnum' = s.nnum
                /\ UNCHANGED pc
       ELSE /\ Goto(p, "del_size")
            /\ UNCHANGED <<heap, nnum, loc>>
    /\ UNCHANGED <<size, wlock, rlock, Shared>>

\* trie.size--; return true
DeleteSize(p) ==
    /\ pc[p] = "del_size"
    /\ size' = size - 1
    /\ loc' = [loc EXCEPT ![p].ret = Ret(TRUE), ![p].node = NoNode]
    /\ Goto(p, "del_unlock")
    /\ UNCHANGED <<heap, nnum, wlock, rlock, Shared>>

\* the deferred trie.Unlock()
DeleteUnlock(p) ==
    /\ pc[p] = "del_unlock"
    /\ wlock' = NoProc
    /\ Returns(p)
    /\ UNCHANGED <<heap, size, nnum, rlock, Shared>>

\* --- Len and NodeNum ----------------------------------------------------
\* trie.RLock()
LenRLock(p) ==
    /\ pc[p] = "idle"
    /\ CanRLock
    /\ rlock' = rlock \cup {p}
    /\ Goto(p, "len_read")
    /\ loc' = [loc EXCEPT ![p] = Locals("Len", <<>>, Nil, NoNode, <<>>, NoRet)]
    /\ UNCHANGED <<heap, size, nnum, wlock, Shared>>

\* return trie.size, with the deferred trie.RUnlock()
LenReturn(p) ==
    /\ pc[p] = "len_read"
    /\ rlock' = rlock \ {p}
    /\ Returns(p)
    /\ UNCHANGED <<heap, size, nnum, wlock, Shared>>

\* trie.RLock()
NodeNumRLock(p) ==
    /\ pc[p] = "idle"
    /\ CanRLock
    /\ rlock' = rlock \cup {p}
    /\ Goto(p, "nnum_read")
    /\ loc' = [loc EXCEPT ![p] = Locals("NodeNum", <<>>, Nil, NoNode, <<>>, NoRet)]
    /\ UNCHANGED <<heap, size, nnum, wlock, Shared>>

\* return trie.nnum, with the deferred trie.RUnlock()
NodeNumReturn(p) ==
    /\ pc[p] = "nnum_read"
    /\ rlock' = rlock \ {p}
    /\ Returns(p)
    /\ UNCHANGED <<heap, size, nnum, wlock, Shared>>

ConcNext ==
    \/ \E p \in Procs, key \in ConcKeys, data \in ConcValues : InsertLock(p, key, data)
    \/ \E p \in Procs : InsertLoop(p)
    \/ \E p \in Procs : InsertData(p)
    \/ \E p \in Procs : InsertSize(p)
    \/ \E p \in Procs : InsertUnlock(p)
    \/ \E p \in Procs, key \in ConcKeys : SearchRLock(p, key)
    \/ \E p \in Procs : SearchFind(p)
    \/ \E p \in Procs : SearchRUnlock(p)
    \/ \E p \in Procs : SearchReturn(p)
    \/ \E p \in Procs, prefix \in ConcKeys : HasPrefixRLock(p, prefix)
    \/ \E p \in Procs : HasPrefixCollect(p)
    \/ \E p \in Procs : HasPrefixRUnlock(p)
    \/ \E p \in Procs, key \in ConcKeys : DeleteLock(p, key)
    \/ \E p \in Procs : DeleteFind(p)
    \/ \E p \in Procs : DeleteClear(p)
    \/ \E p \in Procs : DeletePrune(p)
    \/ \E p \in Procs : DeleteSize(p)
    \/ \E p \in Procs : DeleteUnlock(p)
    \/ \E p \in Procs : LenRLock(p)
    \/ \E p \in Procs : LenReturn(p)
    \/ \E p \in Procs : NodeNumRLock(p)
    \/ \E p \in Procs : NodeNumReturn(p)

ConcSpec == Init /\ [][ConcNext]_vars

(***************************************************************************)
(* Properties of the one-caller specification.                             *)
(***************************************************************************)
\* key starts with prefix
StartsWith(key, prefix) ==
    /\ Len(key) >= Len(prefix)
    /\ SubSeq(key, 1, Len(prefix)) = prefix

\* the keys that hold a value: Search does not return nil for them
Stored == {k \in Keys : TrieSearch(Cur, k) # Nil}

\* the nodes reachable from the root
Reachable == Live(heap, {root})

\* C1 (round trip): in the state an Insert(K, V) call leaves, K being any key,
\* the empty one included, and V any non-nil value, Search(K) returns V.
RoundTrip ==
    last.op = "Insert" => TrieSearch(Cur, last.key) = last.val

\* C1, reached: "ab" was inserted over an existing "a" and Search("ab") returns
\* the inserted value.
RoundTripWitness ==
    /\ last.op = "Insert"
    /\ last.key = <<"a", "b">>
    /\ <<"a">> \in Stored
    /\ TrieSearch(Cur, last.key) = last.val

\* C2 (delete removes): in the state a Delete(K) call that returned true leaves,
\* Search(K) returns nil and a second Delete(K) returns false.
DeleteRemoves ==
    (last.op = "Delete" /\ last.ret = TRUE) =>
        /\ TrieSearch(Cur, last.key) = Nil
        /\ TrieDelete(Cur, last.key).ret = FALSE

\* C2, reached: Delete("a") returned true while "ab" stays stored, so the node
\* of "a" is still there, without data.
DeleteRemovesWitness ==
    /\ last.op = "Delete"
    /\ last.ret = TRUE
    /\ last.key = <<"a">>
    /\ <<"a", "b">> \in Stored
    /\ TrieSearch(Cur, last.key) = Nil
    /\ TrieDelete(Cur, last.key).ret = FALSE

\* C3 (prefix completeness): for every prefix P, HasPrefix(P) is exactly the map
\* of the keys that hold a value and start with P to their values, which is what
\* PrefixMap.HasPrefix returns on the plain map m; and the HasPrefix call
\* returned that map.
PrefixCompleteness ==
    /\ \A P \in Keys :
          /\ TrieHasPrefix(Cur, P) =
                [k \in {x \in Stored : StartsWith(x, P)} |-> TrieSearch(Cur, k)]
          /\ TrieHasPrefix(Cur, P) = PrefixMapHasPrefix(m, P)
    /\ last.op = "HasPrefix" => last.ret = PrefixMapHasPrefix(m, last.key)

\* C3, reached: HasPrefix("a") returned the two keys under "a" (the prefix
\* itself and a longer one) and left out the stored key "b".
PrefixCompletenessWitness ==
    /\ last.op = "HasPrefix"
    /\ last.key = <<"a">>
    /\ DOMAIN last.ret = {<<"a">>, <<"a", "b">>}
    /\ <<"b">> \in Stored

\* C4 (size accounting): Len() is the number of keys that hold a value.
SizeAccounting ==
    TrieLen(Cur) = Cardinality(Stored)

\* the non-empty prefixes of the keys that hold a value
StoredPrefixes ==
    {p \in Keys \ {<<>>} : \E k \in Stored : StartsWith(k, p)}

\* C5 (node accounting): NodeNum() is 1 plus the number of distinct non-empty
\* prefixes of the stored keys, and every Insert step raises nnum by the number
\* of positions of its key's path that had no node.
NodeAccounting ==
    /\ [](TrieNodeNum(Cur) = 1 + Cardinality(StoredPrefixes))
    /\ [][size' = size + 1 =>
            nnum' = nnum + Cardinality(Missing(heap, root, last'.key))]_vars

\* C5, reached: "a" and "ab" share the node of "a"; with "b" the trie has the
\* root and three nodes.
NodeAccountingWitness ==
    /\ Stored = {<<"a">>, <<"a", "b">>, <<"b">>}
    /\ TrieNodeNum(Cur) = 1 + Cardinality(StoredPrefixes)
    /\ nnum = Cardinality(Reachable)

\* C6 (no dangling nodes): every node reachable from the root is the root, holds
\* data or has a child.
NoDangling ==
    \A n \in Reachable :
        \/ n = root
        \/ heap[n].data # Nil
        \/ DOMAIN heap[n].children # {}

\* C6, reached: a Delete pruned a chain of two nodes, up to the root.
NoDanglingWitness ==
    /\ last.op = "Delete"
    /\ last.ret = TRUE
    /\ Len(last.key) = MaxKeyLen
    /\ Reachable = {root}

\* C7 (drop-in replacement for a map): for every key K, Search(K) is m[K],
\* Delete(K) returns true exactly when K is in m, and Len() is len(m).
DropInMap ==
    /\ \A K \in Keys :
          /\ TrieSearch(Cur, K) = MapGet(m, K)
          /\ TrieDelete(Cur, K).ret = (K \in DOMAIN m)
    /\ TrieLen(Cur) = Cardinality(DOMAIN m)

\* C8 (no-op deletion): a Delete(K) step for a key K that holds no value (K is
\* not in the plain map: never inserted, already deleted, or only the prefix of
\* a stored key) returns false and changes neither the node graph, nor any data,
\* nor size, nor nnum.
NoOpDelete ==
    [][(last'.op = "Delete" /\ last'.key \notin DOMAIN m) =>
          /\ last'.ret = FALSE
          /\ UNCHANGED <<heap, root, size, nnum>>]_vars

\* C8, reached: Delete returned false for a key whose node exists, as a path
\* node of a longer key.
NoOpDeleteWitness ==
    /\ last.op = "Delete"
    /\ last.ret = FALSE
    /\ findNode(heap, root, last.key) \notin {NoNode, root}

\* C13 (the empty key is the root): on a new trie Search("") returns nil; an
\* Insert("", V) step creates no node and leaves nnum as it is, stores V in the
\* root, and leaves a trie in which Search("") returns V, HasPrefix("") holds
\* the entry ("", V) and every other stored key with its value, and Delete("")
\* returns true; a Delete("") step on a root that holds a value returns true
\* and clears it.
EmptyKey ==
    /\ [](last.op = "NewTrie" => TrieSearch(Cur, <<>>) = Nil)
    /\ [][(last'.op = "Insert" /\ last'.key = <<>>) =>
            /\ nnum' = nnum
            /\ DOMAIN heap' = DOMAIN heap
            /\ heap'[root'].data = last'.val
            /\ TrieSearch(Cur', <<>>) = last'.val
            /\ LET hp == TrieHasPrefix(Cur', <<>>)
               IN  /\ <<>> \in DOMAIN hp
                   /\ hp[<<>>] = last'.val
                   /\ DOMAIN hp = Stored'
                   /\ \A k \in DOMAIN hp : hp[k] = TrieSearch(Cur', k)
            /\ LET d == TrieDelete(Cur', <<>>)
               IN  /\ d.ret = TRUE
                   /\ d.trie.heap[root'].data = Nil]_vars
    /\ [][(last'.op = "Delete" /\ last'.key = <<>> /\ heap[root].data # Nil) =>
            /\ last'.ret = TRUE
            /\ heap'[root'].data = Nil
            /\ TrieSearch(Cur', <<>>) = Nil
            /\ nnum' = nnum]_vars

\* C13, reached: Insert("", V) was called with "a" and "ab" stored: the root
\* holds V, no node was added, HasPrefix("") has the three keys.
EmptyKeyWitness ==
    /\ last.op = "Insert"
    /\ last.key = <<>>
    /\ heap[root].data = last.val
    /\ DOMAIN TrieHasPrefix(Cur, <<>>) = {<<>>, <<"a">>, <<"a", "b">>}
    /\ nnum = 3

\* key is longer than prefix and starts with it
Extends(key, prefix) == StartsWith(key, prefix) /\ key # prefix

\* C14 (absence is a result): Search(K) returns nil whenever the path of K does
\* not exist or ends on a node without data, as for a proper prefix of a stored
\* key and for an extension of a stored key that is not stored itself;
\* HasPrefix(P) returns the empty map that make() built, which is not nil, when
\* there is no node at P, and only the keys below P, without P, when the node
\* at P holds no data; and the Search and HasPrefix calls returned these
\* results.
Absence ==
    /\ \A K \in Keys :
          LET node == findNode(heap, root, K)
              hp   == TrieHasPrefix(Cur, K)
          IN  /\ (node = NoNode \/ heap[node].data = Nil) => TrieSearch(Cur, K) = Nil
              /\ K \notin Stored => TrieSearch(Cur, K) = Nil
              /\ node = NoNode => hp = MapOf({})
              /\ (node # NoNode /\ heap[node].data = Nil) =>
                    /\ K \notin DOMAIN hp
                    /\ DOMAIN hp = {x \in Stored : Extends(x, K)}
                    /\ \A x \in DOMAIN hp : hp[x] = TrieSearch(Cur, x)
    /\ (last.op = "Search" /\ last.key \notin Stored) => last.ret = Nil
    /\ (last.op = "HasPrefix" /\ last.key \notin Stored) =>
          /\ DOMAIN last.ret = {x \in Stored : Extends(x, last.key)}
          /\ findNode(heap, root, last.key) = NoNode => last.ret = MapOf({})

\* C14, reached: with only "ab" stored, HasPrefix("a") returned the map of "ab"
\* alone, Search("a") returns nil on the path node and Search("aa") and
\* HasPrefix("aa") find no node.
AbsenceWitness ==
    /\ Stored = {<<"a", "b">>}
    /\ last.op = "HasPrefix"
    /\ last.key = <<"a">>
    /\ DOMAIN last.ret = {<<"a", "b">>}
    /\ findNode(heap, root, <<"a">>) # NoNode
    /\ TrieSearch(Cur, <<"a">>) = Nil
    /\ findNode(heap, root, <<"a", "a">>) = NoNode
    /\ TrieSearch(Cur, <<"a", "a">>) = Nil
    /\ TrieHasPrefix(Cur, <<"a", "a">>) = MapOf({})

\* the node at position i of the path of key; the root at position 0
PathNode(key, i) == findNode(heap, root, SubSeq(key, 1, i))

\* the positions of the maximal chain that ends at the node of key and whose
\* nodes, the data of key's node cleared, hold no data and have no child
\* outside the chain
DeadChain(key) ==
    {i \in 1..Len(key) :
        \A j \in i..Len(key) :
            /\ j < Len(key) => heap[PathNode(key, j)].data = Nil
            /\ DOMAIN heap[PathNode(key, j)].children =
                  (IF j < Len(key) THEN {key[j + 1]} ELSE {})}

\* C16 (pruning is exact): a Delete(K) step that returns true removes exactly
\* the nodes of the maximal chain that starts at the node of K and goes up
\* through nodes without data and without another child; the node above the
\* chain, which holds data, has another child or is the root, stays, as does
\* every other node, unchanged but for the cleared data of K and the child
\* entry of the removed chain; nnum drops by the number of nodes removed.
ExactPruning ==
    [][(last'.op = "Delete" /\ last'.ret = TRUE) =>
          LET K       == last'.key
              removed == {PathNode(K, i) : i \in DeadChain(K)}
              stop    == PathNode(K, Len(K) - Cardinality(removed))
          IN  /\ DOMAIN heap' = DOMAIN heap \ removed
              /\ nnum' = nnum - Cardinality(removed)
              /\ root' = root
              /\ stop \in DOMAIN heap'
              /\ \/ stop = root
                 \/ heap'[stop].data # Nil
                 \/ DOMAIN heap'[stop].children # {}
              /\ \A n \in DOMAIN heap' \ {stop} : heap'[n] = heap[n]
              /\ heap'[stop].symbol = heap[stop].symbol
              /\ heap'[stop].parent = heap[stop].parent
              /\ heap'[stop].data = (IF removed = {} THEN Nil ELSE heap[stop].data)
              /\ LET gone == IF removed = {} THEN {}
                             ELSE {K[Len(K) - Cardinality(removed) + 1]}
                 IN  heap'[stop].children =
                       [r \in DOMAIN heap[stop].children \ gone |->
                           heap[stop].children[r]]]_vars

\* C16, reached: Delete("ab") removed the node of "b" alone and stopped at the
\* node of "a", which holds no data and keeps its other child, of "aa".
ExactPruningWitness ==
    /\ last.op = "Delete"
    /\ last.ret = TRUE
    /\ last.key = <<"a", "b">>
    /\ Stored = {<<"a", "a">>}
    /\ findNode(heap, root, <<"a", "b">>) = NoNode
    /\ nnum = 3

\* C17 (deleting the proper prefix of a stored key): a Delete(K) step for a
\* stored key K that a longer stored key extends returns true, clears the data
\* of the node of K and changes nothing else in the node graph, removes no
\* node, leaves nnum as it is and lowers size by one; Search still returns the
\* value of every longer key, and HasPrefix(K) still returns every longer key
\* with its value.
DeletePrefixKey ==
    [][(/\ last'.op = "Delete"
        /\ last'.key \in Stored
        /\ \E x \in Stored : Extends(x, last'.key)) =>
          LET K == last'.key
          IN  /\ last'.ret = TRUE
              /\ heap' = SetData(heap, findNode(heap, root, K), Nil)
              /\ root' = root
              /\ nnum' = nnum
              /\ size' = size - 1
              /\ TrieNodeNum(Cur') = TrieNodeNum(Cur)
              /\ TrieLen(Cur') = TrieLen(Cur) - 1
              /\ \A x \in Stored :
                    Extends(x, K) =>
                      /\ TrieSearch(Cur', x) = TrieSearch(Cur, x)
                      /\ x \in DOMAIN TrieHasPrefix(Cur', K)
                      /\ TrieHasPrefix(Cur', K)[x] = TrieSearch(Cur, x)
                      /\ TrieHasPrefix(Cur', x) = TrieHasPrefix(Cur, x)]_vars

\* C17, reached: Delete("a") returned true with "ab" and "aa" stored; the node
\* of "a" is still there, without data, and both longer keys are found.
DeletePrefixKeyWitness ==
    /\ last.op = "Delete"
    /\ last.ret = TRUE
    /\ last.key = <<"a">>
    /\ Stored = {<<"a", "a">>, <<"a", "b">>}
    /\ DOMAIN TrieHasPrefix(Cur, <<"a">>) = {<<"a", "a">>, <<"a", "b">>}
    /\ nnum = 4

\* C18 (key isolation): an Insert(K, V) or Delete(K) step changes the result of
\* Search(K') for no key K' other than K, and leaves every node on the path of
\* every other stored key in place.
KeyIsolation ==
    [][last'.op \in {"Insert", "Delete"} =>
          \A K \in Keys \ {last'.key} :
              /\ TrieSearch(Cur', K) = TrieSearch(Cur, K)
              /\ K \in Stored =>
                    \A i \in 0..Len(K) :
                        /\ PathNode(K, i) \in DOMAIN heap'
                        /\ findNode(heap', root', SubSeq(K, 1, i)) = PathNode(K, i)]_vars

\* C18, reached: Delete("ab") pruned the node of "b" below the node of "a",
\* with "a" and "aa" stored and found as before.
KeyIsolationWitness ==
    /\ last.op = "Delete"
    /\ last.ret = TRUE
    /\ last.key = <<"a", "b">>
    /\ Stored = {<<"a">>, <<"a", "a">>}
    /\ findNode(heap, root, <<"a", "b">>) = NoNode

\* C19 (reads are pure): a Search, HasPrefix, Len or NodeNum step, for any key
\* or prefix, present or not, changes neither the nodes (symbol, parent,
\* children, data), nor the root, nor size, nor nnum, so the same read made
\* again returns the same result.
ReadsArePure ==
    [][last'.op \in {"Search", "HasPrefix", "Len", "NodeNum"} =>
          /\ UNCHANGED <<heap, root, size, nnum>>
          /\ Cur' = Cur
          /\ last'.op = "Search" => TrieSearch(Cur', last'.key) = last'.ret
          /\ last'.op = "HasPrefix" => TrieHasPrefix(Cur', last'.key) = last'.ret
          /\ last'.op = "Len" => TrieLen(Cur') = last'.ret
          /\ last'.op = "NodeNum" => TrieNodeNum(Cur') = last'.ret]_vars

\* C19, reached: Search("ab") found the node of "a" and no node below it,
\* returned nil, and the trie still has just the root and the node of "a".
ReadsArePureWitness ==
    /\ last.op = "Search"
    /\ last.key = <<"a", "b">>
    /\ last.ret = Nil
    /\ Stored = {<<"a">>}
    /\ DOMAIN heap = {root, findNode(heap, root, <<"a">>)}
    /\ nnum = 2

\* C20 (last write wins): an Insert(K, V2) step for a key K whose last write is
\* an Insert(K, V1) (K is in the plain map) leaves Search(K) = V2, creates no
\* node, leaves nnum as it is and leaves the node graph as it was, the data of
\* the node of K apart.
LastWriteWins ==
    [][(last'.op = "Insert" /\ last'.key \in DOMAIN m) =>
          LET K == last'.key
          IN  /\ TrieSearch(Cur', K) = last'.val
              /\ nnum' = nnum
              /\ TrieNodeNum(Cur') = TrieNodeNum(Cur)
              /\ root' = root
              /\ heap' = SetData(heap, findNode(heap, root, K), last'.val)
              /\ m'[K] = last'.val]_vars

\* C20, reached: "ab" was inserted with v1, then with v2, with nothing else
\* stored: Search("ab") returns v2 and the trie has its three nodes.
LastWriteWinsWitness ==
    /\ last.op = "Insert"
    /\ last.key = <<"a", "b">>
    /\ last.val = "v2"
    /\ Stored = {<<"a", "b">>}
    /\ TrieSearch(Cur, <<"a", "b">>) = "v2"
    /\ size = 2
    /\ nnum = 3

\* C21 (the root persists): the new trie has the root alone, without data,
\* size 0 and nnum 1; in every state the root is a node of the heap without
\* parent, and nnum is at least 1; no step replaces the root or changes its
\* symbol or parent, also when the step leaves it without data and children.
RootPersistence ==
    /\ [](/\ last.op = "NewTrie" =>
                /\ DOMAIN heap = {root}
                /\ heap[root] = NewNode(NoRune, NoNode)
                /\ size = 0
                /\ nnum = 1
          /\ root \in DOMAIN heap
          /\ root \in Reachable
          /\ heap[root].parent = NoNode
          /\ TrieNodeNum(Cur) >= 1)
    /\ [][/\ root' = root
          /\ heap'[root].symbol = heap[root].symbol
          /\ heap'[root].parent = heap[root].parent]_vars

\* C21, reached: Delete("") removed the last key and left the root without
\* data and without children, the only node.
RootPersistenceWitness ==
    /\ last.op = "Delete"
    /\ last.ret = TRUE
    /\ last.key = <<>>
    /\ DOMAIN heap = {root}
    /\ heap[root] = NewNode(NoRune, NoNode)
    /\ nnum = 1
    /\ m = MapOf({})

\* the paths that lead to a node in trie t
Paths(t) == {K \in Keys : findNode(t.heap, t.root, K) # NoNode}

\* C26 (Insert then Delete restores the trie): in every state, for every key K
\* that holds no value and every non-nil V that Insert can take there,
\* Insert(K, V) followed by Delete(K) returns true and leaves the trie as it
\* was before the Insert: the same nodes under the same paths, the same data,
\* the same Len() and the same NodeNum().
InsertDeleteRoundTrip ==
    \A K \in Keys \ Stored, V \in Values :
        (/\ size < MaxSize
         /\ Cardinality(DOMAIN heap) + Cardinality(Missing(heap, root, K)) <= MaxNodes) =>
            LET i == TrieInsert(Cur, K, V)
                d == TrieDelete(i, K)
            IN  /\ TrieSearch(i, K) = V
                /\ d.ret = TRUE
                /\ d.trie = Cur
                /\ Paths(d.trie) = Paths(Cur)
                /\ \A x \in Keys : TrieSearch(d.trie, x) = TrieSearch(Cur, x)
                /\ TrieLen(d.trie) = TrieLen(Cur)
                /\ TrieNodeNum(d.trie) = TrieNodeNum(Cur)

\* C26, reached: "ab" was inserted next to the stored "a" and deleted again;
\* the trie is the one of "a" alone, with its two nodes and size 1.
InsertDeleteRoundTripWitness ==
    /\ last.op = "Delete"
    /\ last.ret = TRUE
    /\ last.key = <<"a", "b">>
    /\ Stored = {<<"a">>}
    /\ nnum = 2
    /\ size = 1
    /\ LET i == TrieInsert(Cur, <<"a", "b">>, "v1")
       IN  /\ TrieNodeNum(i) = 3
           /\ TrieDelete(i, <<"a", "b">>).trie = Cur

(***************************************************************************)
(* Properties of the one-caller specification with nil payloads.           *)
(***************************************************************************)
\* the prefixes of a key, the key included
Prefixes(key) == {SubSeq(key, 1, i) : i \in 0..Len(key)}

\* C15 (the nil payload is "unset"): while the last write to K is an
\* Insert(K, nil) (m[K] is nil), whether K held a value before it or not,
\* Search(K) returns nil, HasPrefix(P) has no entry for K for any prefix P of K,
\* and Delete(K) returns false; and the Search, HasPrefix and Delete calls
\* returned these results.
Sentinel ==
    /\ \A K \in DOMAIN m :
          m[K] = Nil =>
              /\ TrieSearch(Cur, K) = Nil
              /\ \A P \in Prefixes(K) : K \notin DOMAIN TrieHasPrefix(Cur, P)
              /\ TrieDelete(Cur, K).ret = FALSE
    /\ (last.op = "Search" /\ MapGet(m, last.key) = Nil) => last.ret = Nil
    /\ last.op = "HasPrefix" =>
          \A K \in DOMAIN last.ret : MapGet(m, K) # Nil

\* C15, reached: the last write to "ab" is an Insert("ab", nil) that created
\* its node, and a HasPrefix("a") call returned "a" without "ab".
SentinelWitness ==
    /\ <<"a", "b">> \in DOMAIN m
    /\ m[<<"a", "b">>] = Nil
    /\ findNode(heap, root, <<"a", "b">>) # NoNode
    /\ last.op = "HasPrefix"
    /\ last.key = <<"a">>
    /\ DOMAIN last.ret = {<<"a">>}

\* C23 (nil is "no value stored"): an Insert(K, nil) step keeps the invariants
\* of the trie: if Len() was the number of keys that hold a value it still is,
\* and if no node without data and children other than the root existed, none
\* exists afterwards.
NilInsertKeepsInvariants ==
    [][(last'.op = "Insert" /\ last'.val = Nil) =>
          /\ TrieLen(Cur) = Cardinality(Stored) =>
                TrieLen(Cur') = Cardinality(Stored')
          /\ NoDangling => NoDangling']_vars

\* C27 (the node counter is exact): with one caller, so that no write is in
\* progress in any state, after Inserts with any value, nil included, and
\* Deletes, NodeNum() is the number of nodes reachable from the root, the root
\* included, and the NodeNum call returned that number.
NodeCounter ==
    LET nodes == Reachable
    IN  /\ TrieNodeNum(Cur) = Cardinality(nodes)
        /\ nodes = DOMAIN heap
        /\ last.op = "NodeNum" => last.ret = Cardinality(nodes)

\* C27, reached: NodeNum() returned 3 with the root, the node of "a" and the
\* node of "ab" in the tree, the last two made by an Insert("ab", nil) and
\* without data.
NodeCounterWitness ==
    /\ last.op = "NodeNum"
    /\ last.ret = 3
    /\ Stored = {}
    /\ findNode(heap, root, <<"a", "b">>) # NoNode
    /\ Cardinality(Reachable) = 3

\* C28 (the size counter is bounded below): after Inserts with any value and
\* Deletes, Len() is at least the number of keys that hold a value, hence not
\* negative, and a Delete step that returns true starts with size above zero
\* and leaves it at zero or above.
SizeBound ==
    /\ [](/\ TrieLen(Cur) >= Cardinality(Stored)
          /\ TrieLen(Cur) >= 0
          /\ last.op = "Len" => last.ret >= Cardinality(Stored))
    /\ [][(last'.op = "Delete" /\ last'.ret = TRUE) =>
            /\ size > 0
            /\ size' = size - 1
            /\ size' >= 0]_vars

\* C28, reached: after two Inserts of "a" and a Delete("a") that returned true,
\* no key holds a value and size is 1.
SizeBoundWitness ==
    /\ last.op = "Delete"
    /\ last.ret = TRUE
    /\ last.key = <<"a">>
    /\ Stored = {}
    /\ DOMAIN heap = {root}
    /\ size = 1

\* following the parent references from node reaches the root in at most k
\* steps
RECURSIVE ReachesRoot(_, _)
ReachesRoot(node, k) ==
    IF node = root THEN TRUE
    ELSE IF k = 0 \/ node = NoNode THEN FALSE
    ELSE ReachesRoot(heap[node].parent, k - 1)

\* the entries <<n, r>> of the children maps of a set of nodes
ChildEntries(nodes) ==
    UNION {{<<n, r>> : r \in DOMAIN heap[n].children} : n \in nodes}

\* C22 (the nodes form a tree): no write being in progress, every entry
\* (r -> c) of the children map of a node n reachable from the root leads to a
\* node c whose parent is n and whose symbol is r; the root has no parent; no
\* node is the child of two nodes or of one node under two runes, the root is
\* the child of none, and no two paths lead to one node; the parent references
\* of every reachable node lead to the root.
WellFormed ==
    LET nodes   == Reachable
        entries == ChildEntries(nodes)
        paths   == {K \in Keys : findNode(heap, root, K) # NoNode}
    IN  /\ heap[root].parent = NoNode
        /\ \A e \in entries :
              LET c == heap[e[1]].children[e[2]]
              IN  /\ c \in DOMAIN heap
                  /\ heap[c].parent = e[1]
                  /\ heap[c].symbol = e[2]
        /\ {heap[e[1]].children[e[2]] : e \in entries} = nodes \ {root}
        /\ Cardinality(entries) = Cardinality(nodes) - 1
        /\ \A n \in nodes : ReachesRoot(n, Cardinality(nodes))
        /\ {findNode(heap, root, K) : K \in paths} = nodes
        /\ Cardinality(paths) = Cardinality(nodes)

\* C22, reached: Delete("ab") pruned the node of "ab" and left a tree with a
\* branch at the root, to the nodes of "a" and "b".
WellFormedWitness ==
    /\ last.op = "Delete"
    /\ last.ret = TRUE
    /\ last.key = <<"a", "b">>
    /\ findNode(heap, root, <<"a", "b">>) = NoNode
    /\ findNode(heap, root, <<"a">>) # NoNode
    /\ findNode(heap, root, <<"b">>) # NoNode
    /\ Cardinality(Reachable) = 3

(***************************************************************************)
(* Properties of the specification with several callers.                   *)
(***************************************************************************)
\* the caller is between the Lock() and the Unlock() of Insert or Delete
InWriteSection(p) ==
    pc[p] \in {"ins_loop", "ins_size", "ins_unlock",
               "del_find", "del_clear", "del_prune", "del_size", "del_unlock"}

\* the caller is between the RLock() and the RUnlock() of a reading method
InReadSection(p) ==
    pc[p] \in {"srch_find", "srch_runlock", "hp_collect", "hp_runlock",
               "len_read", "nnum_read"}

\* the node graph under the root
Graph == Collect(heap, {root})

\* C9 (writer exclusion): at most one caller is inside the critical section of
\* Insert or Delete, and then no caller is inside the locked section of Search,
\* HasPrefix, Len or NodeNum; the writer holds the lock for writing at every
\* statement of its section; and every step that changes the node graph, size
\* or nnum is a step of that writer, inside the section, the lock held before
\* and after.
WriterExclusion ==
    /\ [](\A p \in Procs : InWriteSection(p) =>
            /\ wlock = p
            /\ \A q \in Procs \ {p} : ~InWriteSection(q) /\ ~InReadSection(q))
    /\ [][(Graph' # Graph \/ size' # size \/ nnum' # nnum) =>
            \E p \in Procs :
                /\ InWriteSection(p)
                /\ wlock = p
                /\ wlock' = p
                /\ \A q \in Procs \ {p} : pc'[q] = pc[q]]_vars

\* C9, reached: a Delete is in its pruning loop, one node already pruned, while
\* the other caller has called Search and is past its RUnlock().
WriterExclusionWitness ==
    \E p \in Procs, q \in Procs :
        /\ pc[p] = "del_prune"
        /\ wlock = p
        /\ nnum < Cardinality(DOMAIN Graph) + Len(loc[p].key)
        /\ Len(loc[p].key) = MaxKeyLen
        /\ findNode(heap, root, loc[p].key) = NoNode
        /\ pc[q] = "srch_ret"

\* the next statement of the caller reads the children or the data of a node
ReadsNodeField(p) ==
    \/ pc[p] \in {"srch_find", "hp_collect"}
    \/ pc[p] = "srch_ret" /\ loc[p].node # NoNode

\* C10 (no torn reads): a reader (Search, HasPrefix) reads the children or the
\* data of a node only while it holds the lock for reading, so the read of
\* node.data that ends Search never coincides with a write of that field and
\* never delivers a torn value.
NoTornReads ==
    \A p \in Procs :
        /\ ReadsNodeField(p) => p \in rlock
        /\ (pc[p] = "srch_ret" /\ loc[p].node # NoNode) =>
               Torn \notin DataRead(loc[p].node)

\* what the Search of caller p, at its return statement, can return
SearchResults(p) ==
    IF loc[p].node = NoNode THEN {Nil} ELSE DataRead(loc[p].node)

\* C11 (linearizability): the calls of an execution can be put in one order,
\* consistent with their order in time, in which every call returns what it
\* returned: whatever a Search(K) returns is what Search(K) returns when it
\* runs alone at some point between its call and its return, i.e. at its call
\* or after an Insert or Delete that ran meanwhile.
Linearizable ==
    \A p \in Procs :
        pc[p] = "srch_ret" => SearchResults(p) \subseteq hist[p]

\* the values Search returns other than the torn one are those of such an order
LinearizableButTorn ==
    \A p \in Procs :
        pc[p] = "srch_ret" => (SearchResults(p) \ {Torn}) \subseteq hist[p]

\* the steps of a caller that is inside a method
Running(p) ==
    \/ InsertLoop(p) \/ InsertData(p) \/ InsertSize(p) \/ InsertUnlock(p)
    \/ SearchFind(p) \/ SearchRUnlock(p) \/ SearchReturn(p)
    \/ HasPrefixCollect(p) \/ HasPrefixRUnlock(p)
    \/ DeleteFind(p) \/ DeleteClear(p) \/ DeletePrune(p) \/ DeleteSize(p)
    \/ DeleteUnlock(p)
    \/ LenReturn(p) \/ NodeNumReturn(p)

\* C12 (lock discipline, no deadlock): a caller holds the lock for writing
\* exactly while it is inside Insert or Delete and for reading exactly while it
\* is inside the locked part of Search, HasPrefix, Len or NodeNum; a caller that
\* is inside a method can always take its next step, so no state is a deadlock;
\* when no call is in progress the lock is free.  A caller acquires the lock
\* only as the first step of a call, not holding it, and holds nothing when its
\* call has returned, on every return path.
LockDiscipline ==
    /\ [](/\ wlock \in Procs \cup {NoProc}
          /\ rlock \subseteq Procs
          /\ \A p \in Procs :
                /\ wlock = p <=> InWriteSection(p)
                /\ p \in rlock <=> InReadSection(p)
                /\ pc[p] # "idle" => ENABLED Running(p)
          /\ (\A p \in Procs : pc[p] = "idle") => CanLock)
    /\ [][\A p \in Procs :
            /\ ((wlock' = p /\ wlock # p) \/ (p \in rlock' /\ p \notin rlock)) =>
                  /\ pc[p] = "idle"
                  /\ wlock # p
                  /\ p \notin rlock
            /\ pc'[p] = "idle" => (wlock' # p /\ p \notin rlock')]_vars

\* C12, reached: Delete found no value at its key and is at its deferred
\* Unlock(), the lock still held, while the other caller, past the RUnlock()
\* of a Search, holds nothing.
LockDisciplineWitness ==
    \E p \in Procs, q \in Procs :
        /\ pc[p] = "del_unlock"
        /\ loc[p].ret = Ret(FALSE)
        /\ wlock = p
        /\ pc[q] = "srch_ret"
        /\ q \notin rlock

\* C24 (readers share, writers exclude): the lock is never held for reading
\* and for writing at once, and no caller is inside the locked part of Search,
\* HasPrefix, Len or NodeNum while another is inside Insert or Delete; two
\* readers do hold it together (the state of ReadParallelismWitness).
ReadParallelism ==
    /\ ~(wlock # NoProc /\ rlock # {})
    /\ \A p \in Procs, q \in Procs :
          ~(InReadSection(p) /\ InWriteSection(q))

\* C24, reached: a Search and a HasPrefix hold the lock for reading at the same
\* time.
ReadParallelismWitness ==
    \E p \in Procs, q \in Procs :
        /\ p # q
        /\ pc[p] = "srch_find"
        /\ pc[q] = "hp_collect"
        /\ {p, q} \subseteq rlock
        /\ wlock = NoProc

(***************************************************************************)
(* Several callers, fairly scheduled: a caller that is inside a method     *)
(* goes on executing it.                                                   *)
(***************************************************************************)
\* where the callers are: every step of a method changes it
position == <<pc, [q \in Procs |-> loc[q].node]>>

FairSpec == ConcSpec /\ \A p \in Procs : WF_position(Running(p))

\* the length of the parent chain of a node
RECURSIVE Depth(_, _)
Depth(h, node) ==
    IF h[node].parent = NoNode THEN 0 ELSE 1 + Depth(h, h[node].parent)

\* the number of calls of findResults that findResults(node, ...) makes, itself
\* included
RECURSIVE findResultsCalls(_, _)
findResultsCalls(h, nodes) ==
    IF nodes = {} THEN 0
    ELSE LET n == CHOOSE x \in nodes : TRUE
         IN  1 + findResultsCalls(h, {h[n].children[r] : r \in DOMAIN h[n].children})
               + findResultsCalls(h, nodes \ {n})

\* C25 (termination): every call that has taken the lock returns, holding
\* nothing (C12), so that a fair lock lets every waiting caller in;
\* each iteration of the descents of Insert and Search consumes one rune of
\* the key, each iteration of the pruning loop of Delete moves to a node with
\* a strictly shorter parent chain, and the collection of HasPrefix calls
\* findResults once for each node at or below the prefix node.
Termination ==
    /\ \A p \in Procs : (pc[p] # "idle") ~> (pc[p] = "idle")
    /\ [][\A p \in Procs :
            /\ (pc[p] = "ins_loop" /\ pc'[p] = "ins_loop" /\ loc'[p].node # loc[p].node) =>
                  Len(loc'[p].rest) = Len(loc[p].rest) - 1
            /\ (pc[p] = "srch_find" /\ pc'[p] = "srch_find" /\ loc'[p].node # loc[p].node) =>
                  Len(loc'[p].rest) = Len(loc[p].rest) - 1
            /\ (pc[p] = "del_prune" /\ pc'[p] = "del_prune" /\ loc'[p].node # loc[p].node) =>
                  Depth(heap', loc'[p].node) < Depth(heap, loc[p].node)
            /\ (pc[p] = "hp_collect" /\ pc'[p] = "hp_runlock") =>
                  \A n \in Reachable :
                      findResultsCalls(heap, {n}) = Cardinality(Live(heap, {n}))]_vars

\* C25, reached: a Delete of a key of two runes is in its pruning loop, one
\* node pruned, at a node that it prunes next.
TerminationWitness ==
    \E p \in Procs :
        /\ pc[p] = "del_prune"
        /\ Len(loc[p].key) = MaxKeyLen
        /\ loc[p].node # root
        /\ findNode(heap, root, loc[p].key) = NoNode
        /\ Prunable(heap, loc[p].node)

(***************************************************************************)
(* The Node variant without lock and counters (src/unnamed/part_000): its  *)
(* Insert, Delete and findNode build and walk the same node graph; its     *)
(* HasPrefix names every result by key(), from the parent references.      *)
(***************************************************************************)
\* the first loop of key(): the symbols from the node up to the root
RECURSIVE keyUp(_, _)
keyUp(h, node) ==
    IF h[node].parent = NoNode THEN <<>>
    ELSE <<h[node].symbol>> \o keyUp(h, h[node].parent)

\* the second loop of key(): the slice reversed in place
Reverse(s) == [i \in 1..Len(s) |-> s[Len(s) + 1 - i]]

\* a faulty key(): the symbols are not reversed
keyNoReverse(h, node) == keyUp(h, node)

\* node.key()
key(h, node) == Reverse(keyUp(h, node))

\* the closure findNodes of the variant's HasPrefix, as a set of entries
RECURSIVE findNodes(_, _)
findNodes(h, node) ==
    UNION {
        LET c == h[node].children[r]
        IN  (IF h[c].data # Nil THEN {<<key(h, c), h[c].data>>} ELSE {})
            \cup findNodes(h, c)
        : r \in DOMAIN h[node].children }

\* the variant's trie.HasPrefix(prefix)
NodeHasPrefix(h, trie, prefix) ==
    LET pnode == findNode(h, trie, prefix)
    IN  IF pnode = NoNode THEN MapOf({})
        ELSE MapOf((IF h[pnode].data # Nil
                    THEN {<<key(h, pnode), h[pnode].data>>} ELSE {})
                   \cup findNodes(h, pnode))

\* C29 (key() agrees with the descent): for every node that a path leads to
\* from the root, key() returns that path; and for every prefix the variant's
\* HasPrefix, called on the root, returns the map that the HasPrefix of Trie
\* returns, which is also what the HasPrefix call returned.
KeyReconstruction ==
    /\ \A K \in Keys :
          LET node == findNode(heap, root, K)
          IN  node # NoNode => key(heap, node) = K
    /\ \A P \in Keys : NodeHasPrefix(heap, root, P) = TrieHasPrefix(Cur, P)
    /\ last.op = "HasPrefix" => NodeHasPrefix(heap, root, last.key) = last.ret

\* C29, reached: HasPrefix("a") returned the keys "aa" and "ab", whose nodes
\* are two steps below the root, and key() names them so.
KeyReconstructionWitness ==
    /\ last.op = "HasPrefix"
    /\ last.key = <<"a">>
    /\ DOMAIN last.ret = {<<"a", "a">>, <<"a", "b">>}
    /\ key(heap, findNode(heap, root, <<"a", "b">>)) = <<"a", "b">>
    /\ DOMAIN NodeHasPrefix(heap, root, <<"a">>) = {<<"a", "a">>, <<"a", "b">>}

=============================================================================
